---- MODULE Spec2Model ----
(***************************************************************************)
(* ComponentLoader (src/unnamed/part_000, with the reduced duplicate in    *)
(* src/js/components/utils.js): single-flight fragment loading with a      *)
(* cache, the promise-based injection lock, handler tracking, ordered      *)
(* script re-attachment, and the template engine.                          *)
(*                                                                         *)
(* JavaScript runs on one thread: every action below is one synchronous    *)
(* run of code between two suspension points (an await or an event).       *)
(***************************************************************************)
EXTENDS Naturals, Sequences, FiniteSets, TLC

\* ---------------------------------------------------------------- bounds
\* invocations explored with every option (Spec) ...
NumCalls == 2

\* ... and with plain replace-injections only (LockSpec)
NumLockCalls == 3

\* loadComponent, clearCache and destroy calls (CacheSpec)
NumCacheCalls == 3

\* the calls of a batch and destroy calls (TeardownSpec)
NumTeardownCalls == 3

Max(S) == CHOOSE x \in S : \A y \in S : y <= x

Calls == 1..Max({NumCalls, NumLockCalls, NumCacheCalls, NumTeardownCalls})

\* ------------------------------------------------------------- Map helpers
\* A JavaScript Map is a function whose DOMAIN is the set of keys present.
EmptyMap == [k \in {} |-> 0]

MapSet(m, k, v) == [x \in (DOMAIN m) \cup {k} |-> IF x = k THEN v ELSE m[x]]

MapDelete(m, k) == [x \in (DOMAIN m) \ {k} |-> m[x]]

\* ------------------------------------------------------- component sources
Names == {"navigation", "footer"}

\* <script> elements of each fragment, in document order
ScriptsOf(name) ==
    IF name = "navigation" THEN <<"inline", "external", "inline">> ELSE << >>

\* typeof this[`initialize${_toCamelCase(name)}`] === 'function'
HasInitializer(name) == name \in {"navigation", "contact-form"}

\* handlers the initializer attaches and tracks (toggle click, Escape keydown)
NumHandlers(name) == IF name = "navigation" THEN 2 ELSE 0

\* ------------------------------------------------------------------ state
VARIABLES
    components,          \* this.components     : name -> content
    loadingStates,       \* this.loadingStates  : name -> retrieval promise
    eventHandlers,       \* this.eventHandlers  : instanceKey -> list of records
    injectionLocks,      \* this.injectionLocks : key -> lock promise
    currentReleaseLock,  \* this._currentReleaseLock : resolver of a lock promise, 0 = unset
    config,              \* this.config
    fetches,             \* the retrievals issued so far; content of retrieval f is f
    resolvedLocks,       \* lock promises that have been resolved
    dom,                 \* element -> what the loader put into its children (light)
                         \*            and into its shadow root, in order
    listeners,           \* handlers currently attached to the document's nodes
    calls,               \* the invocations of injectComponent / loadComponent
    waitq,               \* calls suspended in _acquireLock, in the order they awaited
    tplParts, tplText, tplData, tplOut, tplDone, \* one application of _processTemplate
    initialized,         \* this.initialized
    batch,               \* one invocation of loadPageComponents
    tree,                \* the document: node -> its element children, in order
    keyLog               \* element -> the instance keys derived for it so far

vars == <<components, loadingStates, eventHandlers, injectionLocks,
          currentReleaseLock, config, fetches, resolvedLocks, dom, listeners,
          calls, waitq, tplParts, tplText, tplData, tplOut, tplDone,
          initialized, batch, tree, keyLog>>

loaderVars == <<components, loadingStates, eventHandlers, injectionLocks,
                currentReleaseLock, config, fetches, resolvedLocks, dom,
                listeners, calls, waitq>>

tplVars == <<tplParts, tplText, tplData, tplOut, tplDone>>

batchVars == <<initialized, batch>>

docVars == <<tree, keyLog>>

\* ------------------------------------------------------------ the document
\* Nodes are numbers: body is 0, the elements are 1, 2, ...  The variable
\* `tree` (below) gives every node its element children in document order; a
\* node that is in no list has parentNode null.
Body == 0

\* parentNode === null
NoNode == 9

\* the targets of the injection engine's specifications: element 1 is
\* <div id="app">, element 2 has no id
Elements == {1, 2}

\* the elements of the key derivation's specification: 3 has no id and starts
\* inside 2, 4 has no id and is made by createElement, 5 has id "_anonymous_1"
KeyElements == 1..5

\* current.parentNode
ParentOf(e) ==
    IF \E p \in DOMAIN tree : \E i \in 1..Len(tree[p]) : tree[p][i] = e
    THEN CHOOSE p \in DOMAIN tree : \E i \in 1..Len(tree[p]) : tree[p][i] = e
    ELSE NoNode

\* current.parentNode?.children || []
ChildrenOf(e) == IF e \in DOMAIN tree THEN tree[e] ELSE << >>

ElementId(e) == IF e = 1 THEN "app" ELSE IF e = 5 THEN "_anonymous_1" ELSE ""

\* The key is a string; the model writes it as a sequence of pieces.  An id is
\* cut where the anonymous form is cut, so that two keys are the same
\* sequence exactly when they are the same string.
IdPieces(id) == IF id = "_anonymous_1" THEN <<"_anonymous_", "1">> ELSE <<id>>

\* Array.from(children).indexOf(e), printed as it appears in the joined path
Digits == <<"0", "1", "2", "3">>

IndexIn(s, e) == IF \E i \in 1..Len(s) : s[i] = e
                   THEN Digits[CHOOSE i \in 1..Len(s) : s[i] = e]
                   ELSE "-1"

\* while (current && current !== document.body) { path.unshift(index) ... }
RECURSIVE _getElementPath(_)
_getElementPath(e) ==
    IF e = NoNode \/ e = Body THEN << >>
    ELSE LET up == _getElementPath(ParentOf(e))
             ix == IndexIn(ChildrenOf(ParentOf(e)), e)
         IN  IF up = << >> THEN <<ix>> ELSE up \o <<"-", ix>>

\* `${componentName}:${targetId}` as a sequence of pieces
_getInstanceKey(componentName, e) ==
    <<componentName, ":">> \o
       (IF ElementId(e) # "" THEN IdPieces(ElementId(e))
                             ELSE <<"_anonymous_">> \o _getElementPath(e))


IdleCall ==
    [pc |-> "idle", kind |-> "inject", name |-> "", el |-> 0, key |-> << >>,
     append |-> FALSE, shadow |-> FALSE, transition |-> "none", exec |-> TRUE,
     awaiting |-> 0, load |-> 0, html |-> 0, sidx |-> 0, slog |-> << >>,
     result |-> "", releases |-> 0, logged |-> 0, dispatched |-> 0,
     evt |-> << >>]

\* loadPageComponents before it is called: `loaded`, what onProgress was
\* handed, the console.error lines of its catch, the map callbacks that ran
\* to their end, and the 'components:ready' events dispatched
IdleBatch ==
    [state |-> "idle", base |-> 0, total |-> 0, loaded |-> 0, progress |-> << >>,
     errors |-> 0, finished |-> {}, ready |-> 0]

\* the lock promise created by call c is named c; its resolver likewise
LockPromise(c) == c

\* window.componentLoader = new ComponentLoader({...})
GlobalConfig == [cacheEnabled |-> TRUE, enableShadowDOM |-> FALSE,
                 executeScripts |-> TRUE]

\* new ComponentLoader({ ..., cacheEnabled: false })
NoCacheConfig == [GlobalConfig EXCEPT !.cacheEnabled = FALSE]

\* new ComponentLoader({ ..., enableShadowDOM: true })
ShadowConfig == [GlobalConfig EXCEPT !.enableShadowDOM = TRUE]

\* the page of the injection engine's specifications: body > (1, 2)
PageTree == [n \in {Body} \cup Elements |-> IF n = Body THEN <<1, 2>> ELSE << >>]

NoKeys == [e \in KeyElements |-> {}]

DocInit ==
    /\ tree = PageTree
    /\ keyLog = NoKeys

LoaderInit ==
    /\ components = EmptyMap
    /\ loadingStates = EmptyMap
    /\ eventHandlers = EmptyMap
    /\ injectionLocks = EmptyMap
    /\ currentReleaseLock = 0
    /\ fetches = << >>
    /\ resolvedLocks = {}
    /\ dom = [e \in Elements |->
                [light |-> << >>, hasShadowRoot |-> FALSE, shadowRoot |-> << >>]]
    /\ listeners = {}
    /\ calls = [c \in Calls |-> IdleCall]
    /\ waitq = << >>
    /\ initialized = FALSE
    /\ batch = IdleBatch


\* ---------------------------------------------------------- template engine
\* Strings are sequences of one-character strings.  A JavaScript value is a
\* record: t is its type, s its characters (strings, and the decimal form of a
\* number), f its own properties (objects), keyed by property name.
Str(chars) == [t |-> "string", s |-> chars, f |-> << >>]

Num(digits) == [t |-> "number", s |-> digits, f |-> << >>]

Obj(props) == [t |-> "object", s |-> << >>, f |-> props]

Null == [t |-> "null", s |-> << >>, f |-> << >>]

Undefined == [t |-> "undefined", s |-> << >>, f |-> << >>]

\* current?.[prop], for property names that are neither inherited nor indices
GetProp(current, prop) ==
    IF current.t \in {"null", "undefined"} THEN Undefined
    ELSE IF current.t = "object" /\ prop \in DOMAIN current.f THEN current.f[prop]
    ELSE Undefined

\* String(value)
StringOf(value) ==
    IF value.t \in {"string", "number"} THEN value.s
    ELSE IF value.t = "null" THEN <<"n", "u", "l", "l">>
    ELSE IF value.t = "undefined"
         THEN <<"u", "n", "d", "e", "f", "i", "n", "e", "d">>
    ELSE <<"[", "o", "b", "j", "e", "c", "t", " ", "O", "b", "j", "e", "c", "t", "]">>

\* the serialization of a text node: div.textContent = text; div.innerHTML
EscapeChar(ch) ==
    IF ch = "&" THEN <<"&", "a", "m", "p", ";">>
    ELSE IF ch = "<" THEN <<"&", "l", "t", ";">>
    ELSE IF ch = ">" THEN <<"&", "g", "t", ";">>
    ELSE <<ch>>

RECURSIVE _escapeHtml(_)
_escapeHtml(text) ==
    IF text = << >> THEN << >>
    ELSE EscapeChar(Head(text)) \o _escapeHtml(Tail(text))

\* key.trim()
RECURSIVE TrimStart(_)
TrimStart(str) ==
    IF str # << >> /\ Head(str) = " " THEN TrimStart(Tail(str)) ELSE str

RECURSIVE TrimEnd(_)
TrimEnd(str) ==
    IF str # << >> /\ str[Len(str)] = " "
       THEN TrimEnd(SubSeq(str, 1, Len(str) - 1)) ELSE str

Trim(str) == TrimEnd(TrimStart(str))

\* path.split('.')
RECURSIVE Split(_, _)
Split(str, acc) ==
    IF str = << >> THEN <<acc>>
    ELSE IF Head(str) = "." THEN <<acc>> \o Split(Tail(str), << >>)
    ELSE Split(Tail(str), Append(acc, Head(str)))

\* props.reduce((current, prop) => current?.[prop], obj)
RECURSIVE Reduce(_, _)
Reduce(current, props) ==
    IF props = << >> THEN current
    ELSE Reduce(GetProp(current, Head(props)), Tail(props))

_getNestedValue(obj, path) == Reduce(obj, Split(path, << >>))

\* as Unresolved, blanking the placeholder
Unresolved_blank(match) == << >>

\* value !== undefined ? ... : match
Unresolved(match) == match

\* the replacer callback of html.replace
Replacer(match, key, data) ==
    LET value == _getNestedValue(data, Trim(key))
    IN  IF value # Undefined THEN _escapeHtml(StringOf(value)) ELSE Unresolved(match)

\* index of the first "}" of html at or after i, or 0
RECURSIVE FirstClose(_, _)
FirstClose(html, i) ==
    IF i > Len(html) THEN 0
    ELSE IF html[i] = "}" THEN i
    ELSE FirstClose(html, i + 1)

\* /\{\{([^}]+)\}\}/ matched at position i: the index of its last character, or 0
MatchEnd(html, i) ==
    IF i + 1 <= Len(html) /\ html[i] = "{" /\ html[i + 1] = "{"
    THEN LET j == FirstClose(html, i + 2)
         IN  IF j > i + 2 /\ j + 1 <= Len(html) /\ html[j + 1] = "}"
                THEN j + 1 ELSE 0
    ELSE 0

\* html.replace(/.../g, replacer) from position i on
RECURSIVE ReplaceFrom(_, _, _)
ReplaceFrom(html, i, data) ==
    IF i > Len(html) THEN << >>
    ELSE LET e == MatchEnd(html, i)
         IN  IF e # 0
                THEN Replacer(SubSeq(html, i, e), SubSeq(html, i + 2, e - 2), data)
                        \o ReplaceFrom(html, e + 1, data)
                ELSE <<html[i]>> \o ReplaceFrom(html, i + 1, data)

\* as _processTemplate, replacing again in what the first replacement wrote
_processTemplate_rescan(html, data) ==
    LET d == IF data = Undefined THEN Obj(<< >>) ELSE data
    IN  IF d = Null \/ (d.t = "object" /\ DOMAIN d.f = {})
           THEN html
           ELSE ReplaceFrom(ReplaceFrom(html, 1, d), 1, d)

\* data = {} when the argument is undefined; !data || Object.keys(data).length === 0
_processTemplate(html, data) ==
    LET d == IF data = Undefined THEN Obj(<< >>) ELSE data
    IN  IF d = Null \/ (d.t = "object" /\ DOMAIN d.f = {})
           THEN html
           ELSE ReplaceFrom(html, 1, d)

\* no template is being rendered
TplIdle ==
    /\ tplParts = << >>
    /\ tplText = << >>
    /\ tplData = Undefined
    /\ tplOut = << >>
    /\ tplDone = FALSE

\* ------------------------------------------------------- target resolution
\* what injectComponent may be handed as `target`
TargetArgs ==
    {[type |-> "element", el |-> e, s |-> ""] : e \in Elements} \cup
    {[type |-> "string", el |-> 0, s |-> str] : str \in {"#app", "app", "#nope"}}

querySelector(str) == IF str = "#app" THEN 1 ELSE 0

getElementById(str) == IF str = "app" THEN 1 ELSE 0

\* target.includes(' ') || target.startsWith('.') || target.startsWith('[')
HasSelectorSyntax(str) == str \in {".app", "[id]", "body div"}

\* 0 stands for null
_resolveTarget(target) ==
    IF target.type = "element" THEN target.el
    ELSE IF target.type = "string"
         THEN IF querySelector(target.s) = 0 /\ ~HasSelectorSyntax(target.s)
                 THEN getElementById(target.s)
                 ELSE querySelector(target.s)
         ELSE 0

\* per-call options: { append, transition, executeScripts }
OptionSets ==
    {[append |-> a, shadow |-> FALSE, transition |-> t, exec |-> x] :
        a \in BOOLEAN, t \in {"none", "fn"}, x \in {GlobalConfig.executeScripts}}
    \cup
    {[append |-> a, shadow |-> TRUE, transition |-> "none", exec |-> x] :
        a \in BOOLEAN, x \in {GlobalConfig.executeScripts}}

\* injectComponent(name, target, { executeScripts: false })
PlainOptions ==
    {[append |-> FALSE, shadow |-> FALSE, transition |-> "none", exec |-> FALSE]}

\* ------------------------------------------------------------ lock registry
\* as LockHeld, for a waiter that takes its wake-up as the grant of the lock
LockHeld_assumedFree(key) == FALSE

\* while (this.injectionLocks.has(key))
LockHeld(key) == key \in DOMAIN injectionLocks

\* the tail of _acquireLock: register a fresh promise, remember its resolver
_acquireLock_set(c, key) ==
    /\ injectionLocks' = MapSet(injectionLocks, key, LockPromise(c))
    /\ currentReleaseLock' = c

\* which resolver _releaseLock calls: the one in the shared field
ReleaseTarget(c) == currentReleaseLock

_releaseLock(c, key) ==
    /\ IF ReleaseTarget(c) # 0
          THEN /\ resolvedLocks' = resolvedLocks \cup {ReleaseTarget(c)}
               /\ currentReleaseLock' = 0
          ELSE UNCHANGED <<resolvedLocks, currentReleaseLock>>
    /\ injectionLocks' = MapDelete(injectionLocks, key)

\* seq with every occurrence of x removed
RECURSIVE Without(_, _)
Without(seq, x) ==
    IF seq = << >> THEN << >>
    ELSE IF Head(seq) = x THEN Without(Tail(seq), x)
    ELSE <<Head(seq)>> \o Without(Tail(seq), x)

\* the reactions of one promise run in the order they were registered
FirstWaiter(c) ==
    \A i \in 1..Len(waitq) :
        (waitq[i] # c /\ calls[waitq[i]].awaiting = calls[c].awaiting) =>
            \E j \in 1..(i - 1) : waitq[j] = c

\* the call's position between its _acquireLock and its _releaseLock
InCritical(c) ==
    /\ calls[c].kind = "inject"
    /\ calls[c].pc \in {"acquired", "awaitLoad", "transOut", "injecting",
                        "transIn", "awaitInit"}

\* ------------------------------------------------------------ fragment store
InFlightNever(name) == FALSE

\* if (this.loadingStates.has(componentName))
InFlight(name) == name \in DOMAIN loadingStates

\* loadComponent up to its first await, on behalf of call c; `cs` is the call
\* table already updated by the caller.
loadComponent(c, name, cs) ==
    IF config.cacheEnabled /\ name \in DOMAIN components
    THEN /\ calls' = [cs EXCEPT ![c].pc = "awaitLoad", ![c].load = 0,
                                ![c].html = components[name]]
         /\ UNCHANGED <<fetches, loadingStates>>
    ELSE IF InFlight(name)
    THEN /\ calls' = [cs EXCEPT ![c].pc = "awaitLoad",
                                ![c].load = loadingStates[name]]
         /\ UNCHANGED <<fetches, loadingStates>>
    ELSE LET f == Len(fetches) + 1 IN
         /\ fetches' = Append(fetches, [name |-> name, state |-> "pending",
                                        continued |-> FALSE, owner |-> c])
         /\ loadingStates' = MapSet(loadingStates, name, f)
         /\ calls' = [cs EXCEPT ![c].pc = "awaitLoad", ![c].load = f]

\* calls are numbered in the order they are made
MayStart(c) ==
    /\ calls[c].pc = "idle"
    /\ IF c = 1 THEN TRUE ELSE calls[c - 1].pc # "idle"

\* a direct loadComponent(name), as preloadComponents makes
LoadStart(c, names) ==
    /\ MayStart(c)
    /\ \E name \in names :
          loadComponent(c, name, [calls EXCEPT ![c].kind = "load", ![c].name = name])
    /\ UNCHANGED <<components, eventHandlers, injectionLocks, currentReleaseLock,
                   config, resolvedLocks, dom, listeners, waitq, tplVars, batchVars, docVars>>

\* the retrieval settles: response ok with text, or non-ok status / transport error
FetchSettle(f) ==
    /\ f \in 1..Len(fetches)
    /\ fetches[f].state = "pending"
    /\ \E outcome \in {"ok", "fail"} :
          fetches' = [fetches EXCEPT ![f].state = outcome]
    /\ UNCHANGED <<components, loadingStates, eventHandlers, injectionLocks,
                   currentReleaseLock, config, resolvedLocks, dom, listeners,
                   calls, waitq, tplVars, batchVars, docVars>>

\* as loadComponent_continue, with the delete at the end of the try block
loadComponent_continue_noFinally(f) ==
    /\ f \in 1..Len(fetches)
    /\ fetches[f].state # "pending"
    /\ ~fetches[f].continued
    /\ components' = IF fetches[f].state = "ok" /\ config.cacheEnabled
                        THEN MapSet(components, fetches[f].name, f)
                        ELSE components
    /\ loadingStates' = IF fetches[f].state = "ok"
                           THEN MapDelete(loadingStates, fetches[f].name)
                           ELSE loadingStates
    /\ fetches' = [fetches EXCEPT ![f].continued = TRUE]
    /\ UNCHANGED <<eventHandlers, injectionLocks, currentReleaseLock, config,
                   resolvedLocks, dom, listeners, calls, waitq, tplVars, batchVars, docVars>>

\* as loadComponent_continue, storing the content whatever the configuration
loadComponent_continue_alwaysCache(f) ==
    /\ f \in 1..Len(fetches)
    /\ fetches[f].state # "pending"
    /\ ~fetches[f].continued
    /\ components' = IF fetches[f].state = "ok"
                        THEN MapSet(components, fetches[f].name, f)
                        ELSE components
    /\ loadingStates' = MapDelete(loadingStates, fetches[f].name)
    /\ fetches' = [fetches EXCEPT ![f].continued = TRUE]
    /\ UNCHANGED <<eventHandlers, injectionLocks, currentReleaseLock, config,
                   resolvedLocks, dom, listeners, calls, waitq, tplVars, batchVars, docVars>>

\* loadComponent after `await loadPromise`, in the invocation that issued f
loadComponent_continue(f) ==
    /\ f \in 1..Len(fetches)
    /\ fetches[f].state # "pending"
    /\ ~fetches[f].continued
    /\ components' = IF fetches[f].state = "ok" /\ config.cacheEnabled
                        THEN MapSet(components, fetches[f].name, f)
                        ELSE components
    /\ loadingStates' = MapDelete(loadingStates, fetches[f].name)
    /\ fetches' = [fetches EXCEPT ![f].continued = TRUE]
    /\ UNCHANGED <<eventHandlers, injectionLocks, currentReleaseLock, config,
                   resolvedLocks, dom, listeners, calls, waitq, tplVars, batchVars, docVars>>

\* the value call c awaits from loadComponent has settled
LoadSettled(c) ==
    /\ calls[c].pc = "awaitLoad"
    /\ IF calls[c].load = 0 THEN TRUE
       ELSE /\ fetches[calls[c].load].state # "pending"
            /\ fetches[calls[c].load].continued

LoadOk(c) == IF calls[c].load = 0 THEN TRUE
             ELSE fetches[calls[c].load].state = "ok"

LoadedHtml(c) == IF calls[c].load = 0 THEN calls[c].html ELSE calls[c].load

\* a direct loadComponent caller gets the outcome
LoadReturn(c) ==
    /\ calls[c].kind = "load"
    /\ LoadSettled(c)
    /\ calls' = [calls EXCEPT
                   ![c].pc = IF LoadOk(c) THEN "resolved" ELSE "rejected",
                   ![c].html = IF LoadOk(c) THEN LoadedHtml(c) ELSE 0,
                   ![c].result = IF LoadOk(c) THEN "ok" ELSE "RetrievalError"]
    /\ UNCHANGED <<components, loadingStates, eventHandlers, injectionLocks,
                   currentReleaseLock, config, fetches, resolvedLocks, dom,
                   listeners, waitq, tplVars, batchVars, docVars>>

clearCache_evict_nothing(n) == components

\* what clearCache(n) leaves in this.components; "" stands for no argument
clearCache_evict(n) == IF n # "" THEN MapDelete(components, n) ELSE EmptyMap

\* clearCache(componentName) / clearCache()
clearCache ==
    /\ \E n \in Names \cup {""} : components' = clearCache_evict(n)
    /\ UNCHANGED <<loadingStates, eventHandlers, injectionLocks,
                   currentReleaseLock, config, fetches, resolvedLocks, dom,
                   listeners, calls, waitq, tplVars, batchVars, docVars>>

\* clearCache(...) made as call c, so that the call table records it
ClearCacheCall(c) ==
    /\ MayStart(c)
    /\ \E n \in Names \cup {""} :
          /\ components' = clearCache_evict(n)
          /\ calls' = [calls EXCEPT ![c].kind = "clearCache", ![c].name = n,
                                    ![c].pc = "resolved", ![c].result = "ok"]
    /\ UNCHANGED <<loadingStates, eventHandlers, injectionLocks,
                   currentReleaseLock, config, fetches, resolvedLocks, dom,
                   listeners, waitq, tplVars, batchVars, docVars>>

\* ---------------------------------------------------------- handler registry
Range(seq) == {seq[i] : i \in 1..Len(seq)}

HandlersAt(key) == IF key \in DOMAIN eventHandlers THEN eventHandlers[key] ELSE << >>

\* the handlers one run of call c's initializer attaches
NewHandlers(c, name) == [n \in 1..NumHandlers(name) |-> [by |-> c, n |-> n]]

\* initializer: addEventListener + _trackEventListener(instanceKey, ...) for each
_trackEventListener(instanceKey, hs) ==
    /\ eventHandlers' = MapSet(eventHandlers, instanceKey, HandlersAt(instanceKey) \o hs)
    /\ listeners' = listeners \cup Range(hs)

\* as _cleanupEventListeners, without the removeEventListener calls
_cleanupEventListeners_keepAttached(instanceKey) ==
    /\ eventHandlers' = MapDelete(eventHandlers, instanceKey)
    /\ UNCHANGED listeners

_cleanupEventListeners(instanceKey) ==
    IF instanceKey \in DOMAIN eventHandlers
    THEN /\ listeners' = listeners \ Range(eventHandlers[instanceKey])
         /\ eventHandlers' = MapDelete(eventHandlers, instanceKey)
    ELSE UNCHANGED <<eventHandlers, listeners>>

\* every handler record in the registry
AllRecorded == UNION {Range(eventHandlers[k]) : k \in DOMAIN eventHandlers}

\* as destroy, without this.injectionLocks.clear()
destroy_keepLocks(c) ==
    /\ MayStart(c)
    /\ listeners' = listeners \ AllRecorded
    /\ eventHandlers' = EmptyMap
    /\ components' = EmptyMap
    /\ loadingStates' = EmptyMap
    /\ initialized' = FALSE
    /\ calls' = [calls EXCEPT ![c].kind = "destroy", ![c].pc = "resolved",
                              ![c].result = "ok"]
    /\ UNCHANGED <<injectionLocks, currentReleaseLock, config, fetches,
                   resolvedLocks, dom, waitq, tplVars, batch, docVars>>

\* destroy(), made as call c: _cleanupEventListeners for every key of
\* eventHandlers, then the three clear() calls and initialized = false
destroy(c) ==
    /\ MayStart(c)
    /\ listeners' = listeners \ AllRecorded
    /\ eventHandlers' = EmptyMap
    /\ components' = EmptyMap
    /\ loadingStates' = EmptyMap
    /\ injectionLocks' = EmptyMap
    /\ initialized' = FALSE
    /\ calls' = [calls EXCEPT ![c].kind = "destroy", ![c].pc = "resolved",
                              ![c].result = "ok"]
    /\ UNCHANGED <<currentReleaseLock, config, fetches, resolvedLocks, dom,
                   waitq, tplVars, batch, docVars>>

\* ---------------------------------------------------------- injection engine
\* an injectComponent invocation that has returned or thrown past its
\* catch/finally: its locals are gone, what it did is kept
Settled(call, pc, result, logs, events) ==
    [call EXCEPT !.pc = pc, !.result = result,
                 !.logged = @ + logs, !.dispatched = @ + events,
                 !.releases = @ + 1,
                 !.append = FALSE, !.shadow = FALSE,
                 !.transition = "none", !.exec = TRUE,
                 !.awaiting = 0, !.sidx = 0]

\* as Reject, with the release at the end of the try block instead of finally
Reject_noFinally(c, err) ==
    /\ calls' = [calls EXCEPT ![c] = [Settled(@, "rejected", err, 1, 0)
                                        EXCEPT !.releases = calls[c].releases]]
    /\ UNCHANGED <<injectionLocks, currentReleaseLock, resolvedLocks>>

\* catch { console.error(...); throw } finally { this._releaseLock(lockKey) }
Reject(c, err) ==
    /\ calls' = [calls EXCEPT ![c] = Settled(@, "rejected", err, 1, 0)]
    /\ _releaseLock(c, calls[c].key)

TargetMissing_never(el) == FALSE

\* if (!targetElement)
TargetMissing(el) == el = 0

\* the part of the state injectComponent touches before its first await
EntryState ==
    [calls |-> calls, injectionLocks |-> injectionLocks,
     currentReleaseLock |-> currentReleaseLock, waitq |-> waitq]

\* injectComponent up to the end of its `await this._acquireLock(lockKey)`
\* call, as a function of the state st it starts in
injectComponent_begin(st, c, name, target, opt) ==
    LET el  == _resolveTarget(target)
        key == _getInstanceKey(name, el)
        cs  == [st.calls EXCEPT ![c].kind = "inject", ![c].name = name,
                                ![c].el = el,
                                ![c].append = opt.append,
                                ![c].shadow = opt.shadow,
                                ![c].transition = opt.transition,
                                ![c].exec = opt.exec]
    IN  IF TargetMissing(el)
        THEN [st EXCEPT !.calls = [st.calls EXCEPT ![c].pc = "rejected",
                                                   ![c].name = name,
                                                   ![c].result = "TargetNotFound"]]
        ELSE IF key \in DOMAIN st.injectionLocks
        THEN [st EXCEPT !.calls = [cs EXCEPT ![c].pc = "lockWait", ![c].key = key,
                                             ![c].awaiting = st.injectionLocks[key]],
                        !.waitq = Append(st.waitq, c)]
        ELSE [st EXCEPT !.calls = [cs EXCEPT ![c].pc = "acquired", ![c].key = key],
                        !.injectionLocks = MapSet(st.injectionLocks, key, LockPromise(c)),
                        !.currentReleaseLock = c]

\* one injectComponent(name, target, options) call
InjectStart(c, names, options) ==
    /\ MayStart(c)
    /\ \E name \in names, target \in TargetArgs, opt \in options :
         LET st == injectComponent_begin(EntryState, c, name, target, opt)
         IN  /\ calls' = st.calls
             /\ injectionLocks' = st.injectionLocks
             /\ currentReleaseLock' = st.currentReleaseLock
             /\ waitq' = st.waitq
    /\ UNCHANGED <<components, loadingStates, eventHandlers, config, fetches,
                   resolvedLocks, dom, listeners, tplVars, batchVars, docVars>>

\* as _acquireLock_resume, with `if` in place of `while`
_acquireLock_resume_once(c) ==
    /\ calls[c].pc = "lockWait"
    /\ calls[c].awaiting \in resolvedLocks
    /\ FirstWaiter(c)
    /\ calls' = [calls EXCEPT ![c].pc = "acquired", ![c].awaiting = 0]
    /\ waitq' = Without(waitq, c)
    /\ _acquireLock_set(c, calls[c].key)
    /\ UNCHANGED <<components, loadingStates, eventHandlers, config, fetches,
                   resolvedLocks, dom, listeners, tplVars, batchVars, docVars>>

\* _acquireLock after `await this.injectionLocks.get(key)`: test the loop again
_acquireLock_resume(c) ==
    /\ calls[c].pc = "lockWait"
    /\ calls[c].awaiting \in resolvedLocks
    /\ FirstWaiter(c)
    /\ IF LockHeld(calls[c].key)
          THEN /\ calls' = [calls EXCEPT ![c].awaiting = injectionLocks[calls[c].key]]
               /\ waitq' = Append(Without(waitq, c), c)
               /\ UNCHANGED <<injectionLocks, currentReleaseLock>>
          ELSE /\ calls' = [calls EXCEPT ![c].pc = "acquired", ![c].awaiting = 0]
               /\ waitq' = Without(waitq, c)
               /\ _acquireLock_set(c, calls[c].key)
    /\ UNCHANGED <<components, loadingStates, eventHandlers, config, fetches,
                   resolvedLocks, dom, listeners, tplVars, batchVars, docVars>>

\* as InjectLoad, with the handler clean-up of a replacing injection done
\* before the fragment is awaited
InjectLoad_cleanupFirst(c) ==
    /\ calls[c].kind = "inject"
    /\ calls[c].pc = "acquired"
    /\ loadComponent(c, calls[c].name, calls)
    /\ IF ~calls[c].append
          THEN _cleanupEventListeners(calls[c].key)
          ELSE UNCHANGED <<eventHandlers, listeners>>
    /\ UNCHANGED <<components, injectionLocks, currentReleaseLock,
                   config, resolvedLocks, dom, waitq, tplVars, batchVars, docVars>>

\* try { ... const html = await this.loadComponent(componentName)
InjectLoad(c) ==
    /\ calls[c].kind = "inject"
    /\ calls[c].pc = "acquired"
    /\ loadComponent(c, calls[c].name, calls)
    /\ UNCHANGED <<components, eventHandlers, injectionLocks, currentReleaseLock,
                   config, resolvedLocks, dom, listeners, waitq, tplVars, batchVars, docVars>>

ScriptsToRun(c) == IF calls[c].exec THEN ScriptsOf(calls[c].name) ELSE << >>

AwaitsLoad_never(kind) == FALSE

\* if (oldScript.src): the external script's load is awaited
AwaitsLoad(kind) == kind = "external"

\* _injectWithDOM up to its first await: the fragment goes in, and the first
\* script (if any) is re-created and attached.
_injectWithDOM(c, cs) ==
    LET el   == calls[c].el
        frag == [by |-> c, i |-> 0]
        base == IF calls[c].append THEN Append(dom[el].light, frag) ELSE <<frag>>
    IN  IF ScriptsToRun(c) # << >>
        THEN /\ dom' = [dom EXCEPT ![el].light = Append(base, [by |-> c, i |-> 1])]
             /\ calls' = [cs EXCEPT ![c].pc = "injecting", ![c].sidx = 1,
                             ![c].slog = <<[ev |-> "attach", i |-> 1]>>]
        ELSE /\ dom' = [dom EXCEPT ![el].light = base]
             /\ calls' = [cs EXCEPT ![c].pc = "injecting", ![c].sidx = 0]

\* _injectWithShadowDOM up to its first await: the shadow root is created on
\* first use and its content is replaced; `append` is not consulted.
_injectWithShadowDOM(c, cs) ==
    LET el   == calls[c].el
        frag == [by |-> c, i |-> 0]
    IN  IF ScriptsToRun(c) # << >>
        THEN /\ dom' = [dom EXCEPT ![el].hasShadowRoot = TRUE,
                                   ![el].shadowRoot = <<frag, [by |-> c, i |-> 1]>>]
             /\ calls' = [cs EXCEPT ![c].pc = "injecting", ![c].sidx = 1,
                             ![c].slog = <<[ev |-> "attach", i |-> 1]>>]
        ELSE /\ dom' = [dom EXCEPT ![el].hasShadowRoot = TRUE,
                                   ![el].shadowRoot = <<frag>>]
             /\ calls' = [cs EXCEPT ![c].pc = "injecting", ![c].sidx = 0]

\* if (shadow && this.config.enableShadowDOM)
UsesShadow(c) == calls[c].shadow /\ config.enableShadowDOM

Insert(c, cs) ==
    IF UsesShadow(c) THEN _injectWithShadowDOM(c, cs) ELSE _injectWithDOM(c, cs)

\* new CustomEvent('component:loaded', { detail: { componentName, options,
\* instanceKey } }) as call c dispatches it from its target in the current
\* state; the options object of call c is named c.  `held` and `inited` are
\* what a listener finds: the call's lock still registered, the
\* initializer's handlers attached.
LoadedEvent(c) ==
    [componentName |-> calls[c].name,
     options       |-> c,
     instanceKey   |-> _getInstanceKey(calls[c].name, calls[c].el),
     from          |-> calls[c].el,
     held          |-> IF calls[c].key \in DOMAIN injectionLocks
                          THEN injectionLocks[calls[c].key] = LockPromise(c)
                          ELSE FALSE,
     inited        |-> Range(NewHandlers(c, calls[c].name)) \subseteq listeners]

\* as initializeComponent, with the dispatch inside the `if`
initializeComponent_silent(c, cs) ==
    LET instanceKey == _getInstanceKey(calls[c].name, calls[c].el) IN
    IF HasInitializer(calls[c].name)
    THEN /\ _trackEventListener(instanceKey, NewHandlers(c, calls[c].name))
         /\ calls' = [cs EXCEPT ![c].pc = "awaitInit"]
    ELSE /\ calls' = [cs EXCEPT ![c].pc = "awaitInit"]
         /\ UNCHANGED <<eventHandlers, listeners>>

\* initializeComponent up to its first await
initializeComponent(c, cs) ==
    LET instanceKey == _getInstanceKey(calls[c].name, calls[c].el) IN
    IF HasInitializer(calls[c].name)
    THEN /\ _trackEventListener(instanceKey, NewHandlers(c, calls[c].name))
         /\ calls' = [cs EXCEPT ![c].pc = "awaitInit"]
    ELSE /\ calls' = [cs EXCEPT ![c].pc = "awaitInit", ![c].dispatched = @ + 1,
                                ![c].evt = Append(@, LoadedEvent(c))]
         /\ UNCHANGED <<eventHandlers, listeners>>

\* injectComponent after `await this.loadComponent(...)` succeeded
InjectAfterLoad(c) ==
    /\ calls[c].kind = "inject"
    /\ LoadSettled(c)
    /\ LoadOk(c)
    /\ IF ~calls[c].append
          THEN _cleanupEventListeners(calls[c].key)
          ELSE UNCHANGED <<eventHandlers, listeners>>
    /\ LET cs == [calls EXCEPT ![c].html = LoadedHtml(c)] IN
       IF calls[c].transition # "none" /\ ~calls[c].append
          THEN /\ calls' = [cs EXCEPT ![c].pc = "transOut"]
               /\ UNCHANGED dom
          ELSE Insert(c, cs)
    /\ UNCHANGED <<components, loadingStates, injectionLocks, currentReleaseLock,
                   config, fetches, resolvedLocks, waitq, tplVars, batchVars, docVars>>

\* the awaited loadComponent rejected
InjectLoadFailed(c) ==
    /\ calls[c].kind = "inject"
    /\ LoadSettled(c)
    /\ ~LoadOk(c)
    /\ Reject(c, "RetrievalError")
    /\ UNCHANGED <<components, loadingStates, eventHandlers, config, fetches,
                   dom, listeners, waitq, tplVars, batchVars, docVars>>

\* `await this._applyTransition(targetElement, transition, 'out')` returned
TransitionOutDone(c) ==
    /\ calls[c].pc = "transOut"
    /\ Insert(c, calls)
    /\ UNCHANGED <<components, loadingStates, eventHandlers, injectionLocks,
                   currentReleaseLock, config, fetches, resolvedLocks, listeners,
                   waitq, tplVars, batchVars, docVars>>

\* a transition function that rejects
TransitionFailed(c) ==
    /\ calls[c].pc \in {"transOut", "transIn"}
    /\ Reject(c, "TransitionError")
    /\ UNCHANGED <<components, loadingStates, eventHandlers, config, fetches,
                   dom, listeners, waitq, tplVars, batchVars, docVars>>

\* injectComponent after `await this._injectWithDOM(...)`
AfterInsert(c, cs) ==
    IF calls[c].transition # "none" /\ ~calls[c].append
    THEN /\ calls' = [cs EXCEPT ![c].pc = "transIn"]
         /\ UNCHANGED <<eventHandlers, listeners>>
    ELSE initializeComponent(c, cs)

\* the for-loop of _injectWithDOM / _injectWithShadowDOM after one `await this._executeScript(...)`
ScriptLoopNext(c, cs) ==
    IF calls[c].sidx < Len(ScriptsToRun(c))
    THEN /\ dom' = IF UsesShadow(c)
                      THEN [dom EXCEPT ![calls[c].el].shadowRoot =
                              Append(@, [by |-> c, i |-> calls[c].sidx + 1])]
                      ELSE [dom EXCEPT ![calls[c].el].light =
                              Append(@, [by |-> c, i |-> calls[c].sidx + 1])]
         /\ calls' = [cs EXCEPT ![c].sidx = @ + 1,
                         ![c].slog = Append(@, [ev |-> "attach", i |-> calls[c].sidx + 1])]
         /\ UNCHANGED <<eventHandlers, listeners>>
    ELSE /\ AfterInsert(c, cs)
         /\ UNCHANGED dom

\* resumes after an inline script (or with no script at all)
ScriptResume(c) ==
    /\ calls[c].pc = "injecting"
    /\ IF calls[c].sidx = 0 THEN TRUE
       ELSE ~AwaitsLoad(ScriptsToRun(c)[calls[c].sidx])
    /\ ScriptLoopNext(c, calls)
    /\ UNCHANGED <<components, loadingStates, injectionLocks, currentReleaseLock,
                   config, fetches, resolvedLocks, waitq, tplVars, batchVars, docVars>>

\* newScript.onload fires
ScriptOnload(c) ==
    /\ calls[c].pc = "injecting"
    /\ calls[c].sidx > 0
    /\ AwaitsLoad(ScriptsToRun(c)[calls[c].sidx])
    /\ ScriptLoopNext(c, [calls EXCEPT ![c].slog =
                             Append(@, [ev |-> "load", i |-> calls[c].sidx])])
    /\ UNCHANGED <<components, loadingStates, injectionLocks, currentReleaseLock,
                   config, fetches, resolvedLocks, waitq, tplVars, batchVars, docVars>>

\* as ScriptOnerror, with the failure swallowed: the loop goes on to the next script
ScriptOnerror_swallowed(c) ==
    /\ calls[c].pc = "injecting"
    /\ calls[c].sidx > 0
    /\ AwaitsLoad(ScriptsToRun(c)[calls[c].sidx])
    /\ ScriptLoopNext(c, calls)
    /\ UNCHANGED <<components, loadingStates, injectionLocks, currentReleaseLock,
                   config, fetches, resolvedLocks, waitq, tplVars, batchVars, docVars>>

\* newScript.onerror fires
ScriptOnerror(c) ==
    /\ calls[c].pc = "injecting"
    /\ calls[c].sidx > 0
    /\ AwaitsLoad(ScriptsToRun(c)[calls[c].sidx])
    /\ Reject(c, "ExternalScriptError")
    /\ UNCHANGED <<components, loadingStates, eventHandlers, config, fetches,
                   dom, listeners, waitq, tplVars, batchVars, docVars>>

\* `await this._applyTransition(targetElement, transition, 'in')` returned
TransitionInDone(c) ==
    /\ calls[c].pc = "transIn"
    /\ initializeComponent(c, calls)
    /\ UNCHANGED <<components, loadingStates, injectionLocks, currentReleaseLock,
                   config, fetches, resolvedLocks, dom, waitq, tplVars, batchVars, docVars>>

\* the initializer settled: dispatch 'component:loaded', return, release
InitDone(c) ==
    /\ calls[c].pc = "awaitInit"
    /\ calls' = [calls EXCEPT ![c] =
                    [Settled(@, "resolved", "ok", 0,
                             IF HasInitializer(calls[c].name) THEN 1 ELSE 0)
                       EXCEPT !.evt = IF HasInitializer(calls[c].name)
                                         THEN Append(@, LoadedEvent(c))
                                         ELSE @]]
    /\ _releaseLock(c, calls[c].key)
    /\ UNCHANGED <<components, loadingStates, eventHandlers, config, fetches,
                   dom, listeners, waitq, tplVars, batchVars, docVars>>

\* the initializer threw or rejected
InitFailed(c) ==
    /\ calls[c].pc = "awaitInit"
    /\ HasInitializer(calls[c].name)
    /\ Reject(c, "InitializerError")
    /\ UNCHANGED <<components, loadingStates, eventHandlers, config, fetches,
                   dom, listeners, waitq, tplVars, batchVars, docVars>>

\* ------------------------------------------------------------- batch loader
\* entries of the componentsMap handed to loadPageComponents
NumEntries == 2

\* options = {} : the defaults of injectComponent's destructuring
DefaultOptions ==
    [append |-> FALSE, shadow |-> FALSE, transition |-> "none",
     exec |-> GlobalConfig.executeScripts]

\* a value of the map: a target string, or an object { target, ...options }
EntryConfigs ==
    {[isString |-> TRUE, target |-> t, options |-> DefaultOptions] :
        t \in {x \in TargetArgs : x.type = "string"}}
    \cup
    {[isString |-> FALSE, target |-> t, options |-> o] :
        t \in TargetArgs,
        o \in PlainOptions \cup {[DefaultOptions EXCEPT !.append = TRUE]}}

\* const target = typeof config === 'string' ? config : config.target
EntryTarget(cfg) == cfg.target

\* const options = typeof config === 'object' ? { ...config } : {}
EntryOptions(cfg) == IF cfg.isString THEN DefaultOptions ELSE cfg.options

\* Object.entries(componentsMap): each name at most once, in insertion order
ComponentsMaps ==
    {m \in UNION {[1..n -> [name : Names, config : EntryConfigs]] : n \in 0..NumEntries} :
        \A i, j \in 1..Len(m) : m[i].name = m[j].name => i = j}

\* the injectComponent calls the current batch made
BatchEntries == (batch.base + 1)..(batch.base + batch.total)

\* entries.map(async ([componentName, config]) => ...): every callback runs
\* up to its `await this.injectComponent(...)` before the next one starts
RECURSIVE StartEntries(_, _, _, _)
StartEntries(st, base, map, i) ==
    IF i > Len(map) THEN st
    ELSE StartEntries(
            injectComponent_begin(st, base + i, map[i].name,
                                  EntryTarget(map[i].config),
                                  EntryOptions(map[i].config)),
            base, map, i + 1)

\* loadPageComponents(componentsMap, onProgress) up to `await Promise.all(...)`
loadPageComponents(map) ==
    LET base == Cardinality({c \in Calls : calls[c].pc # "idle"})
        st   == StartEntries(EntryState, base, map, 1)
    IN  /\ batch.state = "idle"
        /\ base + Len(map) <= Cardinality(Calls)
        /\ calls' = st.calls
        /\ injectionLocks' = st.injectionLocks
        /\ currentReleaseLock' = st.currentReleaseLock
        /\ waitq' = st.waitq
        /\ batch' = [IdleBatch EXCEPT !.state = "running", !.base = base,
                                      !.total = Len(map)]
        /\ UNCHANGED <<components, loadingStates, eventHandlers, config, fetches,
                       resolvedLocks, dom, listeners, tplVars, initialized, docVars>>

\* as EntryDone, without the try/catch around the awaited injectComponent
EntryDone_noCatch(c) ==
    /\ batch.state = "running"
    /\ c \in BatchEntries \ batch.finished
    /\ calls[c].pc \in {"resolved", "rejected"}
    /\ batch' = IF calls[c].pc = "resolved"
                   THEN [batch EXCEPT !.loaded = @ + 1,
                            !.progress = Append(@, [done |-> batch.loaded + 1,
                                                    total |-> batch.total,
                                                    name |-> calls[c].name]),
                            !.finished = @ \cup {c}]
                   ELSE [batch EXCEPT !.state = "rejected", !.finished = @ \cup {c}]
    /\ UNCHANGED <<loaderVars, tplVars, initialized, docVars>>

\* the map callback after its `await this.injectComponent(...)` settled:
\* loaded++ and onProgress on success, console.error in the catch otherwise
EntryDone(c) ==
    /\ batch.state = "running"
    /\ c \in BatchEntries \ batch.finished
    /\ calls[c].pc \in {"resolved", "rejected"}
    /\ batch' = IF calls[c].pc = "resolved"
                   THEN [batch EXCEPT !.loaded = @ + 1,
                            !.progress = Append(@, [done |-> batch.loaded + 1,
                                                    total |-> batch.total,
                                                    name |-> calls[c].name]),
                            !.finished = @ \cup {c}]
                   ELSE [batch EXCEPT !.errors = @ + 1, !.finished = @ \cup {c}]
    /\ UNCHANGED <<loaderVars, tplVars, initialized, docVars>>

\* loadPageComponents after `await Promise.all(loadPromises)`
BatchFinish ==
    /\ batch.state = "running"
    /\ batch.finished = BatchEntries
    /\ initialized' = TRUE
    /\ batch' = [batch EXCEPT !.state = "done", !.ready = @ + 1]
    /\ UNCHANGED <<loaderVars, tplVars, docVars>>

\* ------------------------------------------------------------ specification
Init ==
    /\ LoaderInit
    /\ DocInit
    /\ config \in {GlobalConfig, ShadowConfig}
    /\ TplIdle

Next ==
    \/ \E c \in 1..NumCalls : InjectStart(c, Names, OptionSets)
    \/ \E c \in 1..NumCalls : LoadStart(c, Names)
    \/ \E c \in Calls : _acquireLock_resume(c)
    \/ \E c \in Calls : InjectLoad(c)
    \/ \E f \in Calls : FetchSettle(f)
    \/ \E f \in Calls : loadComponent_continue(f)
    \/ \E c \in Calls : LoadReturn(c)
    \/ \E c \in Calls : InjectAfterLoad(c)
    \/ \E c \in Calls : InjectLoadFailed(c)
    \/ \E c \in Calls : TransitionOutDone(c)
    \/ \E c \in Calls : TransitionFailed(c)
    \/ \E c \in Calls : ScriptResume(c)
    \/ \E c \in Calls : ScriptOnload(c)
    \/ \E c \in Calls : ScriptOnerror(c)
    \/ \E c \in Calls : TransitionInDone(c)
    \/ \E c \in Calls : InitDone(c)
    \/ \E c \in Calls : InitFailed(c)
    \/ clearCache

Spec == Init /\ [][Next]_vars

\* Three concurrent replace-injections without scripts or transitions
LockNext ==
    \/ \E c \in 1..NumLockCalls : InjectStart(c, Names, PlainOptions)
    \/ \E c \in Calls : _acquireLock_resume(c)
    \/ \E c \in Calls : InjectLoad(c)
    \/ \E f \in Calls : FetchSettle(f)
    \/ \E f \in Calls : loadComponent_continue(f)
    \/ \E c \in Calls : InjectAfterLoad(c)
    \/ \E c \in Calls : InjectLoadFailed(c)
    \/ \E c \in Calls : ScriptResume(c)
    \/ \E c \in Calls : InitDone(c)
    \/ \E c \in Calls : InitFailed(c)

LockInit ==
    /\ LoaderInit
    /\ DocInit
    /\ config = GlobalConfig
    /\ TplIdle

LockSpec == LockInit /\ [][LockNext]_vars

\* every step call c can take once it has been made
CallStep(c) ==
    \/ _acquireLock_resume(c)
    \/ InjectLoad(c)
    \/ InjectAfterLoad(c)
    \/ InjectLoadFailed(c)
    \/ ScriptResume(c)
    \/ InitDone(c)
    \/ InitFailed(c)

\* The event loop runs every continuation that is ready, and (the premise of
\* the liveness claim) every retrieval and every initializer settles.
FairLockSpec ==
    /\ LockSpec
    /\ \A c \in Calls : WF_vars(CallStep(c))
    /\ \A f \in Calls : WF_vars(FetchSettle(f)) /\ WF_vars(loadComponent_continue(f))

\* One loadPageComponents call, possibly while an earlier injectComponent
\* call is still running
BatchNext ==
    \/ InjectStart(1, {"navigation"}, PlainOptions)
    \/ \E map \in ComponentsMaps : loadPageComponents(map)
    \/ \E c \in Calls : _acquireLock_resume(c)
    \/ \E c \in Calls : InjectLoad(c)
    \/ \E f \in Calls : FetchSettle(f)
    \/ \E f \in Calls : loadComponent_continue(f)
    \/ \E c \in Calls : InjectAfterLoad(c)
    \/ \E c \in Calls : InjectLoadFailed(c)
    \/ \E c \in Calls : ScriptResume(c)
    \/ \E c \in Calls : ScriptOnload(c)
    \/ \E c \in Calls : ScriptOnerror(c)
    \/ \E c \in Calls : InitDone(c)
    \/ \E c \in Calls : InitFailed(c)
    \/ \E c \in Calls : EntryDone(c)
    \/ BatchFinish

BatchSpec == LockInit /\ [][BatchNext]_vars

\* the continuations of the batch run once what they await has settled
FairBatchSpec ==
    /\ BatchSpec
    /\ \A c \in Calls : WF_vars(EntryDone(c))
    /\ WF_vars(BatchFinish)

\* loadComponent, clearCache and destroy calls in any order, with the cache
\* enabled or disabled
CacheInit ==
    /\ LoaderInit
    /\ DocInit
    /\ config \in {GlobalConfig, NoCacheConfig}
    /\ TplIdle

CacheNext ==
    \/ \E c \in 1..NumCacheCalls : LoadStart(c, Names)
    \/ \E c \in 1..NumCacheCalls : ClearCacheCall(c)
    \/ \E c \in 1..NumCacheCalls : destroy(c)
    \/ \E f \in Calls : FetchSettle(f)
    \/ \E f \in Calls : loadComponent_continue(f)
    \/ \E c \in Calls : LoadReturn(c)

CacheSpec == CacheInit /\ [][CacheNext]_vars

\* maps whose entries are { target, executeScripts: false }
PlainMaps ==
    {m \in ComponentsMaps :
        \A i \in 1..Len(m) : ~m[i].config.isString /\ m[i].config.options \in PlainOptions}

\* one loadPageComponents call and destroy calls, in any order
TeardownNext ==
    \/ \E c \in 1..NumTeardownCalls : destroy(c)
    \/ \E map \in PlainMaps : loadPageComponents(map)
    \/ \E c \in Calls : InjectLoad(c)
    \/ \E f \in Calls : FetchSettle(f)
    \/ \E f \in Calls : loadComponent_continue(f)
    \/ \E c \in Calls : InjectAfterLoad(c)
    \/ \E c \in Calls : InjectLoadFailed(c)
    \/ \E c \in Calls : ScriptResume(c)
    \/ \E c \in Calls : InitDone(c)
    \/ \E c \in Calls : InitFailed(c)
    \/ \E c \in Calls : EntryDone(c)
    \/ BatchFinish

TeardownSpec == LockInit /\ [][TeardownNext]_vars

\* injectComponent('navigation', ...) calls and destroy calls, in any order
TeardownLockNext ==
    \/ \E c \in 1..NumTeardownCalls : InjectStart(c, {"navigation"}, PlainOptions)
    \/ \E c \in 1..NumTeardownCalls : destroy(c)
    \/ \E c \in Calls : _acquireLock_resume(c)
    \/ \E c \in Calls : InjectLoad(c)
    \/ \E f \in Calls : FetchSettle(f)
    \/ \E f \in Calls : loadComponent_continue(f)
    \/ \E c \in Calls : InjectAfterLoad(c)
    \/ \E c \in Calls : InjectLoadFailed(c)
    \/ \E c \in Calls : ScriptResume(c)
    \/ \E c \in Calls : InitDone(c)
    \/ \E c \in Calls : InitFailed(c)

TeardownLockSpec == LockInit /\ [][TeardownLockNext]_vars

\* ---- the instance key of a target, derived again as the document changes
\* body > (1, 2 > (3), 5); element 4 is not attached yet
KeyTree ==
    [n \in {Body} \cup KeyElements |->
        IF n = Body THEN <<1, 2, 5>> ELSE IF n = 2 THEN <<3>> ELSE << >>]

\* the message element of _showFormMessage
MsgElement == 4

\* the component whose key is derived
KeyComponent == "navigation"

KeyInit ==
    /\ LoaderInit
    /\ config = GlobalConfig
    /\ TplIdle
    /\ tree = KeyTree
    /\ keyLog = NoKeys

\* s without its element e
Detach(s, e) == SelectSeq(s, LAMBDA x : x # e)

\* injectComponent / initializeComponent derive the key of target e
DeriveKey(e) ==
    /\ keyLog' = [keyLog EXCEPT ![e] = @ \cup {_getInstanceKey(KeyComponent, e)}]
    /\ UNCHANGED <<loaderVars, tplVars, batchVars, tree>>

\* _showFormMessage: container.insertBefore(msgElement, container.firstChild)
ShowFormMessage(container) ==
    /\ ParentOf(MsgElement) = NoNode
    /\ ParentOf(container) # NoNode
    /\ tree' = [tree EXCEPT ![container] = <<MsgElement>> \o @]
    /\ UNCHANGED <<loaderVars, tplVars, batchVars, keyLog>>

\* setTimeout(() => msgElement.remove(), 5000)
RemoveFormMessage ==
    /\ ParentOf(MsgElement) # NoNode
    /\ tree' = [tree EXCEPT ![ParentOf(MsgElement)] = Detach(@, MsgElement)]
    /\ UNCHANGED <<loaderVars, tplVars, batchVars, keyLog>>

\* _injectWithDOM of a replacing injection: targetElement.innerHTML = ''
ClearContent(e) ==
    /\ tree[e] # << >>
    /\ tree' = [tree EXCEPT ![e] = << >>]
    /\ UNCHANGED <<loaderVars, tplVars, batchVars, keyLog>>

KeyNext ==
    \/ \E e \in KeyElements : DeriveKey(e)
    \/ \E e \in Elements : ShowFormMessage(e)
    \/ RemoveFormMessage
    \/ \E e \in Elements : ClearContent(e)

KeySpec == KeyInit /\ [][KeyNext]_vars

\* ---- the template engine applied once to a text and a data object
\* pieces of template text: literal characters and placeholders; `path` is the
\* dotted path a placeholder names
Literal(chars) == [chars |-> chars, ph |-> FALSE, path |-> << >>]

Placeholder(chars, path) == [chars |-> chars, ph |-> TRUE, path |-> path]

Parts ==
    { Literal(<<"x">>), Literal(<<"<">>), Literal(<<"&">>), Literal(<<"{">>),
      Literal(<<"}">>), Literal(<<"{", "{", "}", "}">>),
      Placeholder(<<"{", "{", "a", "}", "}">>, <<<<"a">>>>),
      Placeholder(<<"{", "{", "b", "}", "}">>, <<<<"b">>>>),
      Placeholder(<<"{", "{", "c", "}", "}">>, <<<<"c">>>>),
      Placeholder(<<"{", "{", "a", ".", "b", "}", "}">>, <<<<"a">>, <<"b">>>>),
      Placeholder(<<"{", "{", " ", "a", ".", "b", " ", "}", "}">>, <<<<"a">>, <<"b">>>>),
      Placeholder(<<"{", "{", "a", ".", "c", "}", "}">>, <<<<"a">>, <<"c">>>>),
      Placeholder(<<"{", "{", " ", "a", ".", "c", "}", "}">>, <<<<"a">>, <<"c">>>>),
      Placeholder(<<"{", "{", "c", ".", "a", ".", "b", "}", "}">>,
                  <<<<"c">>, <<"a">>, <<"b">>>>) }

MaxParts == 2

PartSeqs == UNION {[1..n -> Parts] : n \in 0..MaxParts}

RECURSIVE Flatten(_)
Flatten(parts) ==
    IF parts = << >> THEN << >> ELSE Head(parts).chars \o Flatten(Tail(parts))

\* the `data` argument: absent, null, {}, and objects with nested, null,
\* undefined, numeric and markup-bearing values
DataSet ==
    { Undefined, Null, Obj(<< >>),
      Obj((<<"a">> :> Obj(<<"b">> :> Str(<<"<", "x", ">">>)))),
      Obj((<<"a">> :> Str(<<"{", "{", "b", "}", "}">>)) @@ (<<"b">> :> Str(<<"s">>))),
      Obj((<<"a">> :> Str(<<"\"", "'", "&">>))),
      Obj((<<"a">> :> Null) @@ (<<"b">> :> Undefined) @@ (<<"c">> :> Num(<<"7">>))) }

TplInit ==
    /\ LoaderInit
    /\ DocInit
    /\ config = GlobalConfig
    /\ tplParts \in PartSeqs
    /\ tplText = Flatten(tplParts)
    /\ tplData \in DataSet
    /\ tplOut = << >>
    /\ tplDone = FALSE

\* const processedHtml = this._processTemplate(html, data)
Render ==
    /\ ~tplDone
    /\ tplOut' = _processTemplate(tplText, tplData)
    /\ tplDone' = TRUE
    /\ UNCHANGED <<loaderVars, tplParts, tplText, tplData, batchVars, docVars>>

TplNext == Render

TplSpec == TplInit /\ [][TplNext]_vars

\* ================================================================== claims
Settled_pcs == {"resolved", "rejected"}

\* call c invokes loadComponent in this step
InvokesLoad(c) == calls[c].pc # "awaitLoad" /\ calls'[c].pc = "awaitLoad"

PendingFor(name) ==
    {f \in 1..Len(fetches) : fetches[f].name = name /\ fetches[f].state = "pending"}

\* C1: a loadComponent(N) call made while a retrieval for N is outstanding
\* issues no retrieval of its own and joins the outstanding one; at most one
\* retrieval per name is outstanding; and every caller that joined retrieval f
\* settles with f's outcome (the content of f, or its error).
C1_SingleFlight ==
    /\ [](\A n \in Names : Cardinality(PendingFor(n)) <= 1)
    /\ [](\A c \in Calls :
            (calls[c].pc \in Settled_pcs /\ calls[c].load # 0) =>
               /\ fetches[calls[c].load].name = calls[c].name
               /\ (fetches[calls[c].load].state = "ok") =>
                     (calls[c].html = calls[c].load /\
                      (calls[c].kind = "load" => calls[c].pc = "resolved"))
               /\ (fetches[calls[c].load].state = "fail") =>
                     (calls[c].pc = "rejected" /\ calls[c].result = "RetrievalError"))
    /\ [][\A c \in Calls :
            (InvokesLoad(c) /\ PendingFor(calls'[c].name) # {}) =>
               /\ fetches' = fetches
               /\ calls'[c].load \in PendingFor(calls'[c].name)]_vars

\* two callers of the same name got the content of the one retrieval issued
C1_Witness ==
    \E c1, c2 \in Calls :
        /\ c1 # c2
        /\ calls[c1].pc = "resolved" /\ calls[c2].pc = "resolved"
        /\ calls[c1].kind = "load" /\ calls[c2].kind = "load"
        /\ calls[c1].load # 0 /\ calls[c1].load = calls[c2].load
        /\ calls[c1].html = calls[c2].html
        /\ Len(fetches) = 1

\* C2: per instance key, at most one injection is between its _acquireLock
\* and its _releaseLock; the one that is there is the one registered in
\* injectionLocks, and a call still suspended in _acquireLock has done nothing.
C2_MutualExclusion ==
    /\ \A c1, c2 \in Calls :
          (c1 # c2 /\ InCritical(c1) /\ InCritical(c2)) =>
              calls[c1].key # calls[c2].key
    /\ \A c \in Calls :
          InCritical(c) =>
              /\ calls[c].key \in DOMAIN injectionLocks
              /\ injectionLocks[calls[c].key] = LockPromise(c)
    /\ \A c \in Calls :
          calls[c].pc = "lockWait" =>
              /\ calls[c].load = 0
              /\ \A e \in Elements :
                    \A x \in Range(dom[e].light) \cup Range(dom[e].shadowRoot) : x.by # c
              /\ \A l \in listeners : l.by # c

\* one injection done, the next in its critical section, a third still queued
C2_Witness ==
    \E c1, c2, c3 \in Calls :
        /\ calls[c1].pc = "resolved" /\ calls[c1].kind = "inject"
        /\ InCritical(c2) /\ calls[c2].pc = "awaitInit"
        /\ calls[c3].pc = "lockWait"
        /\ calls[c1].key = calls[c2].key /\ calls[c2].key = calls[c3].key

\* C3: two injections into the same element are never both between lock
\* acquisition and release, whatever their component names.
C3_PerTargetSerialization ==
    \A c1, c2 \in Calls :
        (c1 # c2 /\ InCritical(c1) /\ InCritical(c2)) =>
            calls[c1].el # calls[c2].el

\* C5: an injection that acquired the lock and settled has run _releaseLock
\* exactly once, on every exit path; none runs it before settling; and the
\* step that settles it leaves no entry for its key.
C5_ReleasedOnEveryExit ==
    /\ [](\A c \in Calls :
            /\ (calls[c].pc \in Settled_pcs /\ calls[c].kind = "inject"
                  /\ calls[c].key # << >>) =>
                   /\ calls[c].releases = 1
                   /\ (calls[c].key \in DOMAIN injectionLocks =>
                         injectionLocks[calls[c].key] # LockPromise(c))
            /\ (calls[c].pc \notin Settled_pcs) => calls[c].releases = 0)
    /\ [][\A c \in Calls :
            (InCritical(c) /\ calls'[c].pc \in Settled_pcs) =>
                calls[c].key \notin DOMAIN injectionLocks']_vars

\* an injection failed while loading an external script, and the next
\* injection for the same key is already past its acquisition
C5_Witness ==
    \E c1, c2 \in Calls :
        /\ calls[c1].pc = "rejected" /\ calls[c1].result = "ExternalScriptError"
        /\ calls[c1].releases = 1
        /\ calls[c2].key = calls[c1].key
        /\ InCritical(c2)

\* C4: every injectComponent call that has been made eventually settles.
C4_EveryCallSettles ==
    \A c \in Calls :
        [](calls[c].pc # "idle" => <>(calls[c].pc \in Settled_pcs))

\* the attached handlers that were tracked under key by any injection
AttachedFor(key) == {l \in listeners : calls[l.by].key = key}

FetchesFor(name) == {f \in 1..Len(fetches) : fetches[f].name = name}

LastFetchFor(name) == CHOOSE f \in FetchesFor(name) : \A g \in FetchesFor(name) : g <= f

\* C7: a failed retrieval rejects every caller that awaited it; once
\* loadComponent has handled the failure the name is neither in flight nor
\* cached, so the next loadComponent(N) issues a new retrieval; and a
\* retrieval is only ever issued by a loadComponent call, never as a retry.
C7_RetrievalFailure ==
    /\ [](\A c \in Calls :
            (calls[c].pc \in Settled_pcs /\ calls[c].load # 0
                /\ fetches[calls[c].load].state = "fail") =>
               (calls[c].pc = "rejected" /\ calls[c].result = "RetrievalError"))
    /\ [](\A n \in Names :
            (FetchesFor(n) # {} /\ fetches[LastFetchFor(n)].state = "fail"
                /\ fetches[LastFetchFor(n)].continued) =>
               (n \notin DOMAIN loadingStates /\ n \notin DOMAIN components))
    /\ [][\A f \in 1..Len(fetches) :
            (fetches[f].state = "fail" /\ ~fetches[f].continued
                /\ fetches'[f].continued) =>
               /\ fetches[f].name \notin DOMAIN loadingStates'
               /\ fetches[f].name \notin DOMAIN components'
               /\ Len(fetches') = Len(fetches)]_vars
    /\ [][Len(fetches') # Len(fetches) =>
            /\ Len(fetches') = Len(fetches) + 1
            /\ \E c \in Calls : InvokesLoad(c) /\ calls'[c].load = Len(fetches')]_vars
    /\ [][\A c \in Calls :
            (InvokesLoad(c) /\ calls'[c].name \notin DOMAIN loadingStates
                /\ calls'[c].name \notin DOMAIN components) =>
               /\ Len(fetches') = Len(fetches) + 1
               /\ fetches'[Len(fetches')].state = "pending"]_vars

\* the retrieval failed, its caller was rejected, and a later call has
\* issued a second retrieval for the same name
C7_Witness ==
    \E c1, c2 \in Calls :
        /\ Len(fetches) = 2
        /\ fetches[1].name = fetches[2].name
        /\ fetches[1].state = "fail" /\ fetches[1].continued
        /\ fetches[2].state = "pending"
        /\ calls[c1].load = 1 /\ calls[c1].pc = "rejected"
        /\ calls[c2].load = 2

IsAttach(e, i) == e.ev = "attach" /\ e.i = i

IsLoad(e, i) == e.ev = "load" /\ e.i = i

\* C8: within one injection the scripts are attached one at a time in
\* document order, and a script that follows an external one is attached only
\* after that external script's load event.
C8_ScriptOrder ==
    \A c \in Calls :
        LET log     == calls[c].slog
            scripts == ScriptsOf(calls[c].name)
        IN  \A p \in 1..Len(log) :
              log[p].ev = "attach" =>
                 /\ log[p].i \in 1..Len(scripts)
                 /\ \A q \in 1..Len(log) : (q # p) => ~IsAttach(log[q], log[p].i)
                 /\ \A j \in 1..(log[p].i - 1) :
                       /\ \E q \in 1..(p - 1) : IsAttach(log[q], j)
                       /\ scripts[j] = "external" =>
                             \E q \in 1..(p - 1) : IsLoad(log[q], j)

\* inline, external, inline: the third was attached after the second loaded
C8_Witness ==
    \E c \in Calls :
        /\ calls[c].pc = "resolved"
        /\ calls[c].slog = <<[ev |-> "attach", i |-> 1], [ev |-> "attach", i |-> 2],
                             [ev |-> "load", i |-> 2], [ev |-> "attach", i |-> 3]>>

MarkupChars == {"<", ">", "&", "\"", "'"}

\* str[i] is an ampersand that starts one of the entities the escaping writes
StartsEntity(str, i) ==
    \E ent \in {<<"&", "a", "m", "p", ";">>, <<"&", "l", "t", ";">>,
                <<"&", "g", "t", ";">>} :
        /\ i + Len(ent) - 1 <= Len(str)
        /\ SubSeq(str, i, i + Len(ent) - 1) = ent

\* C9: when the template text itself holds none of < > & " ', the output
\* holds none of them raw either: whatever a substituted value contributes is
\* escaped (an ampersand appears only as the start of an entity).
C9_ValuesEscaped ==
    (tplDone /\ \A i \in 1..Len(tplText) : tplText[i] \notin MarkupChars) =>
        \A i \in 1..Len(tplOut) :
            /\ tplOut[i] \notin {"<", ">", "\"", "'"}
            /\ tplOut[i] = "&" => StartsEntity(tplOut, i)

DataEmpty(data) ==
    \/ data \in {Undefined, Null}
    \/ data.t = "object" /\ DOMAIN data.f = {}

\* every segment of the path is an own property on the way down, and the
\* value at the end is not undefined
RECURSIVE HasPath(_, _)
HasPath(value, path) ==
    IF path = << >> THEN value.t # "undefined"
    ELSE /\ value.t = "object"
         /\ Head(path) \in DOMAIN value.f
         /\ HasPath(value.f[Head(path)], Tail(path))

MissingPlaceholder(part, data) == part.ph /\ ~HasPath(data, part.path)

\* C10: with empty or absent data the output is the input text; otherwise a
\* placeholder whose path has a missing segment stands character for
\* character in the output (checked where it opens or closes the text), and a
\* text all of whose placeholders are unresolved is returned unchanged.
C10_UnresolvedPassThrough ==
    tplDone =>
       /\ DataEmpty(tplData) => tplOut = tplText
       /\ (~DataEmpty(tplData) /\ tplParts # << >>) =>
            LET first == tplParts[1]
                last  == tplParts[Len(tplParts)]
            IN  /\ MissingPlaceholder(first, tplData) =>
                      /\ Len(tplOut) >= Len(first.chars)
                      /\ SubSeq(tplOut, 1, Len(first.chars)) = first.chars
                /\ MissingPlaceholder(last, tplData) =>
                      /\ Len(tplOut) >= Len(last.chars)
                      /\ SubSeq(tplOut, Len(tplOut) - Len(last.chars) + 1, Len(tplOut))
                            = last.chars
       /\ (\A k \in 1..Len(tplParts) :
              tplParts[k].ph => MissingPlaceholder(tplParts[k], tplData)) =>
            tplOut = tplText

\* {{a.c}}{{a.b}} over {a:{b:"<x>"}}: the first stays, the second is filled
C10_Witness ==
    /\ tplDone
    /\ tplText = <<"{", "{", "a", ".", "c", "}", "}", "{", "{", "a", ".", "b", "}", "}">>
    /\ tplData = Obj((<<"a">> :> Obj(<<"b">> :> Str(<<"<", "x", ">">>))))
    /\ tplOut = <<"{", "{", "a", ".", "c", "}", "}", "&", "l", "t", ";", "x", "&", "g", "t", ";">>

\* every injectComponent call of the batch has resolved or rejected
EntriesSettled == \A c \in BatchEntries : calls[c].pc \in Settled_pcs

\* C11: when the batch has settled, onProgress has been called once per entry
\* of the map, failed entries included, with done = 1, 2, ..., total.
C11_ProgressPerEntry ==
    batch.state = "done" =>
        /\ Len(batch.progress) = batch.total
        /\ \A i \in 1..Len(batch.progress) :
              /\ batch.progress[i].done = i
              /\ batch.progress[i].total = batch.total
        /\ \A c \in BatchEntries :
              Cardinality({i \in 1..Len(batch.progress) :
                              batch.progress[i].name = calls[c].name}) = 1

\* C12: a failed entry is caught: the batch never rejects; 'components:ready'
\* and initialized = true come once, together, and only when every entry has
\* settled and its callback has run; and once every entry has settled the
\* batch does resolve.
C12_BatchIsolation ==
    /\ [](/\ batch.state # "rejected"
          /\ batch.ready <= 1
          /\ (initialized \/ batch.ready > 0) <=> batch.state = "done"
          /\ batch.state = "done" =>
                /\ batch.ready = 1
                /\ EntriesSettled
                /\ batch.finished = BatchEntries
                /\ batch.loaded + batch.errors = batch.total
                /\ batch.errors =
                      Cardinality({c \in BatchEntries : calls[c].pc = "rejected"}))
    /\ (batch.state = "running" /\ EntriesSettled) ~> (batch.state = "done")

\* the batch resolved although one entry failed, and the other entry's
\* content is in its target
C12_Witness ==
    /\ batch.state = "done"
    /\ batch.total = 2
    /\ \E c, d \in BatchEntries :
          /\ calls[c].pc = "rejected"
          /\ calls[c].result = "RetrievalError"
          /\ calls[d].pc = "resolved"
          /\ \E i \in 1..Len(dom[calls[d].el].light) :
                dom[calls[d].el].light[i] = [by |-> d, i |-> 0]

\* call c is made in this step, as an operation of the given kind
Makes(c, kind) == calls[c].pc = "idle" /\ calls'[c].pc # "idle" /\ calls'[c].kind = kind

\* C13: clearCache() leaves the cache empty, clearCache(N) removes N's entry
\* and no other, neither touches the in-flight registry; and a loadComponent(N)
\* that finds no cache entry for N is not answered from the cache: it awaits a
\* retrieval, a newly issued one unless one for N is in flight.
C13_CacheEviction ==
    [][\A c \in Calls :
        /\ Makes(c, "clearCache") =>
              /\ loadingStates' = loadingStates
              /\ fetches' = fetches
              /\ calls'[c].name = "" => components' = EmptyMap
              /\ calls'[c].name # "" =>
                    /\ DOMAIN components' = DOMAIN components \ {calls'[c].name}
                    /\ \A k \in DOMAIN components' : components'[k] = components[k]
        /\ (Makes(c, "load") /\ calls'[c].name \notin DOMAIN components) =>
              /\ calls'[c].load # 0
              /\ calls'[c].load \in 1..Len(fetches')
              /\ fetches'[calls'[c].load].name = calls'[c].name
              /\ calls'[c].name \notin DOMAIN loadingStates =>
                    /\ Len(fetches') = Len(fetches) + 1
                    /\ calls'[c].load = Len(fetches')
                    /\ fetches'[Len(fetches')].state = "pending"
      ]_vars

\* N was loaded and cached, the cache was cleared, and the next load of N
\* awaits a second retrieval
C13_Witness ==
    /\ config.cacheEnabled
    /\ calls[1].kind = "load" /\ calls[1].pc = "resolved" /\ calls[1].html = 1
    /\ calls[2].kind = "clearCache" /\ calls[2].name = ""
    /\ calls[3].kind = "load" /\ calls[3].name = calls[1].name
    /\ calls[3].pc = "awaitLoad" /\ calls[3].load = 2
    /\ fetches[1].continued
    /\ components = EmptyMap

\* the loadComponent calls made so far
LoadCalls == {c \in Calls : calls[c].kind = "load" /\ calls[c].pc # "idle"}

\* C14 as stated: with the cache disabled nothing is ever cached and every
\* loadComponent call, also one made while a load of the same name is in
\* flight, issues a retrieval of its own.
C14_EveryCallRetrieves ==
    ~config.cacheEnabled =>
        /\ components = EmptyMap
        /\ \A c \in LoadCalls : \E f \in 1..Len(fetches) : fetches[f].owner = c

\* C14, amended: with the cache disabled nothing is ever cached and no call
\* is answered from the cache; a call made while no load of the name is
\* registered in flight issues its own retrieval, a call made while one is in
\* flight awaits that retrieval; either way it resolves with the content of
\* the retrieval it awaited.
C14_FreshUnlessInFlight ==
    /\ [](~config.cacheEnabled =>
            /\ components = EmptyMap
            /\ \A c \in LoadCalls :
                  /\ calls[c].load \in 1..Len(fetches)
                  /\ fetches[calls[c].load].name = calls[c].name
                  /\ fetches[calls[c].load].owner <= c
                  /\ calls[c].pc = "resolved" => calls[c].html = calls[c].load)
    /\ [][\A c \in Calls :
            (~config.cacheEnabled /\ Makes(c, "load")) =>
                IF calls'[c].name \in DOMAIN loadingStates
                THEN /\ calls'[c].load = loadingStates[calls'[c].name]
                     /\ fetches' = fetches
                ELSE /\ Len(fetches') = Len(fetches) + 1
                     /\ calls'[c].load = Len(fetches')
                     /\ fetches'[Len(fetches')].owner = c
         ]_vars

\* cache disabled: N loaded twice, one call after the other, each with its
\* own retrieval; and a third call that joined the second retrieval
C14_Witness ==
    /\ ~config.cacheEnabled
    /\ \A c \in 1..3 : calls[c].kind = "load" /\ calls[c].name = "navigation"
    /\ calls[1].pc = "resolved" /\ calls[1].html = 1
    /\ calls[2].pc = "resolved" /\ calls[2].html = 2
    /\ calls[3].pc = "resolved" /\ calls[3].html = 2
    /\ components = EmptyMap

\* C20: at most one retrieval per name is outstanding, and a retrieval stays
\* registered in loadingStates under its name, itself and no other, until
\* its own settling has run the delete.
C20_InFlightInvariant ==
    /\ \A name \in Names : Cardinality(PendingFor(name)) <= 1
    /\ \A f \in 1..Len(fetches) :
          ~fetches[f].continued =>
              /\ fetches[f].name \in DOMAIN loadingStates
              /\ loadingStates[fetches[f].name] = f
    /\ \A name \in DOMAIN loadingStates :
          /\ loadingStates[name] \in 1..Len(fetches)
          /\ ~fetches[loadingStates[name]].continued

\* C15: a resolved injectComponent call has dispatched exactly one
\* 'component:loaded' event, from its target, carrying its component name, its
\* options and its instance key, at a moment when the initializer's work was
\* done and the call's lock was still registered; a rejected call has
\* dispatched none; and an event is never followed by a second one.
C15_CompletionNotification ==
    \A c \in Calls :
        calls[c].kind = "inject" =>
            /\ Len(calls[c].evt) <= 1
            /\ calls[c].pc = "rejected" => calls[c].evt = << >>
            /\ calls[c].pc = "resolved" => Len(calls[c].evt) = 1
            /\ calls[c].evt # << >> =>
                  /\ calls[c].pc \in {"awaitInit", "resolved"}
                  /\ calls[c].evt[1].componentName = calls[c].name
                  /\ calls[c].evt[1].options = c
                  /\ calls[c].evt[1].instanceKey = calls[c].key
                  /\ calls[c].evt[1].from = calls[c].el
                  /\ calls[c].evt[1].held
                  /\ calls[c].evt[1].inited
                  /\ calls[c].pc = "awaitInit" => InCritical(c)

\* one call resolved with its event after its initializer attached handlers,
\* one call without initializer resolved with its event, in the same run
C15_Witness ==
    \E c, d \in Calls :
        /\ calls[c].pc = "resolved" /\ HasInitializer(calls[c].name)
        /\ Len(calls[c].evt) = 1
        /\ \E h \in listeners : h.by = c
        /\ calls[d].pc = "resolved" /\ ~HasInitializer(calls[d].name)
        /\ Len(calls[d].evt) = 1

\* the content of the surface call c inserts into, in the document d
SurfaceOf(c, d) ==
    IF UsesShadow(c) THEN d[calls[c].el].shadowRoot ELSE d[calls[c].el].light

IsPrefix(old, new) == Len(old) <= Len(new) /\ SubSeq(new, 1, Len(old)) = old

\* C16: whenever an injection with append = true changes the document, what
\* its surface (the target's children, or its shadow root) held before is
\* still there, in place, with the new nodes after it.
C16_AppendPreserves ==
    [][\A c \in Calls :
          (calls[c].kind = "inject" /\ calls[c].append /\ calls'[c] # calls[c]
             /\ calls[c].el \in Elements /\ dom' # dom)
          => IsPrefix(SurfaceOf(c, dom), SurfaceOf(c, dom'))
      ]_vars

\* C17: an injectComponent call whose target resolves to no element rejects
\* with the target-not-found error at once, and the step that makes it
\* changes nothing else: no retrieval, no lock entry, no waiter, no handler,
\* no surface, no other call.
C17_UnresolvedTarget ==
    /\ [](\A c \in Calls :
            (calls[c].kind = "inject" /\ calls[c].pc # "idle") =>
                /\ calls[c].el = 0 <=> calls[c].result = "TargetNotFound"
                /\ calls[c].el = 0 =>
                      /\ calls[c].pc = "rejected"
                      /\ calls[c].key = << >>
                      /\ calls[c].load = 0
                      /\ calls[c].releases = 0
                      /\ calls[c].evt = << >>
                      /\ \A i \in 1..Len(waitq) : waitq[i] # c
                      /\ \A k \in DOMAIN injectionLocks : injectionLocks[k] # LockPromise(c)
                      /\ \A f \in 1..Len(fetches) : fetches[f].owner # c)
    /\ [][\A c \in Calls :
            (calls[c].pc = "idle" /\ calls'[c].result = "TargetNotFound") =>
                /\ UNCHANGED <<components, loadingStates, eventHandlers,
                               injectionLocks, currentReleaseLock, fetches,
                               resolvedLocks, dom, listeners, waitq>>
                /\ \A d \in Calls \ {c} : calls'[d] = calls[d]
         ]_vars

\* a call rejected for its target while an earlier call holds a lock and has
\* content and handlers in place
C17_Witness ==
    \E c, d \in Calls :
        /\ calls[c].result = "TargetNotFound" /\ calls[c].pc = "rejected"
        /\ d < c /\ calls[d].pc = "awaitInit"
        /\ calls[d].key \in DOMAIN injectionLocks
        /\ listeners # {}

\* C18: in the state destroy() returns in, no handler that was recorded is
\* attached any more (and none was attached by it), the handler registry, the
\* cache, the in-flight registry and the lock registry are empty, and
\* initialized is false.
C18_Teardown ==
    [][\A c \in Calls :
          Makes(c, "destroy") =>
              /\ listeners' = listeners \ AllRecorded
              /\ eventHandlers' = EmptyMap
              /\ components' = EmptyMap
              /\ loadingStates' = EmptyMap
              /\ injectionLocks' = EmptyMap
              /\ initialized' = FALSE
      ]_vars

\* destroy() ran after the batch had finished: the loader was initialized
\* and an initializer's handlers were recorded; now nothing is left
C18_Witness ==
    \E c \in Calls :
        /\ calls[c].kind = "destroy"
        /\ batch.state = "done" /\ ~initialized
        /\ \E d \in 1..(c - 1) :
              calls[d].pc = "resolved" /\ HasInitializer(calls[d].name)
        /\ \E d \in 1..(c - 1) : calls[d].pc = "rejected"
        /\ listeners = {} /\ eventHandlers = EmptyMap /\ components = EmptyMap
        /\ injectionLocks = EmptyMap /\ loadingStates = EmptyMap

\* C19: the lock promise an injection registered is resolved by that
\* injection's own _releaseLock and by nothing else: it is resolved once the
\* injection has released (and its registration is gone), and not before.
C19_ReleaseResolvesOwn ==
    \A c \in Calls :
        calls[c].kind = "inject" =>
            /\ calls[c].releases > 0 =>
                  /\ LockPromise(c) \in resolvedLocks
                  /\ \A k \in DOMAIN injectionLocks : injectionLocks[k] # LockPromise(c)
            /\ LockPromise(c) \in resolvedLocks => calls[c].releases > 0

\* call c has got past its _acquireLock
HasAcquired(c) ==
    /\ calls[c].kind = "inject"
    /\ calls[c].key # << >>
    /\ calls[c].pc \notin {"idle", "lockWait"}

\* C21 as stated: calls are numbered in the order they are made, so for two
\* calls with the same instance key the earlier one attempted the lock first:
\* the later one is past its _acquireLock only when the earlier one has
\* finished.
C21_ArrivalOrder ==
    \A a, b \in Calls :
        (a < b /\ calls[a].kind = "inject" /\ calls[b].kind = "inject"
           /\ calls[a].key # << >> /\ calls[a].key = calls[b].key
           /\ HasAcquired(b))
        => calls[a].pc \in Settled_pcs

\* C21: a call gets past _acquireLock(K) only in a step that finds no entry
\* registered for K and no other injection for K inside its critical section,
\* and it registers its own entry: whoever held K when the call invoked or
\* resumed _acquireLock(K) has completed before the call's injection begins.
\* No order among the calls that wait is kept.
C21_HolderCompletesFirst ==
    [][\A b \in Calls :
          (~HasAcquired(b) /\ HasAcquired(b)') =>
              LET K == calls'[b].key IN
              /\ K \notin DOMAIN injectionLocks
              /\ K \in DOMAIN injectionLocks'
              /\ injectionLocks'[K] = LockPromise(b)
              /\ \A a \in Calls \ {b} : ~(InCritical(a) /\ calls[a].key = K)
              /\ calls[b].pc = "lockWait" =>
                    calls[calls[b].awaiting].pc \in Settled_pcs
      ]_vars

\* the holder has completed, the call that waited for it is still waiting,
\* and a call that arrived after both is inside its critical section
C21_Witness ==
    \E h, a, b \in Calls :
        /\ h < a /\ a < b
        /\ calls[h].key # << >>
        /\ calls[a].key = calls[h].key /\ calls[b].key = calls[h].key
        /\ calls[h].pc \in Settled_pcs /\ calls[h].releases = 1
        /\ calls[a].pc = "lockWait"
        /\ InCritical(b)

\* call c is suspended in `await this._executeScript(...)` on an external script
AwaitsScript(c) ==
    IF calls[c].pc = "injecting" /\ calls[c].sidx > 0
    THEN AwaitsLoad(ScriptsToRun(c)[calls[c].sidx])
    ELSE FALSE

\* the nodes call c put into any insertion surface
NodesBy(c) ==
    UNION {{n \in Range(dom[e].light) \cup Range(dom[e].shadowRoot) : n.by = c}
             : e \in Elements}

\* C22: when the external script an injection awaits fails to load, the call
\* rejects with that error after logging it once, the lock entry of its key
\* is removed, no further script is attached, the initializer does not run
\* and no 'component:loaded' event is dispatched.
\* First conjunct, what is left of such a call: rejected with the script's
\* error, logged once, nothing dispatched, no handler attached, its last
\* script event is the attachment of the failed script and no later script of
\* the fragment is in the document.  Second conjunct, the step in which the
\* awaited script does not load.
C22_ExternalScriptFailure ==
    /\ [](
          \A c \in Calls :
              calls[c].result = "ExternalScriptError" =>
                  LET log == calls[c].slog IN
                  /\ calls[c].pc = "rejected"
                  /\ calls[c].logged = 1
                  /\ calls[c].releases = 1
                  /\ calls[c].dispatched = 0 /\ calls[c].evt = << >>
                  /\ \A h \in listeners : h.by # c
                  /\ Len(log) > 0
                  /\ log[Len(log)].ev = "attach"
                  /\ ScriptsOf(calls[c].name)[log[Len(log)].i] = "external"
                  /\ \A n \in NodesBy(c) : n.i <= log[Len(log)].i)
    /\ [][
          \A c \in Calls :
              (/\ AwaitsScript(c)
               /\ calls'[c] # calls[c]
               /\ ~\E q \in 1..Len(calls'[c].slog) : IsLoad(calls'[c].slog[q], calls[c].sidx))
              => /\ calls'[c].pc = "rejected"
                 /\ calls'[c].result = "ExternalScriptError"
                 /\ calls'[c].logged = calls[c].logged + 1
                 /\ calls'[c].releases = calls[c].releases + 1
                 /\ calls[c].key \notin DOMAIN injectionLocks'
                 /\ calls'[c].slog = calls[c].slog
                 /\ calls'[c].evt = calls[c].evt
                 /\ dom' = dom /\ listeners' = listeners /\ eventHandlers' = eventHandlers
         ]_vars

\* navigation (inline, external, inline) failed on its second script: the
\* third was never attached and the key is free again
C22_Witness ==
    \E c \in Calls :
        /\ calls[c].result = "ExternalScriptError"
        /\ calls[c].name = "navigation"
        /\ calls[c].slog = <<[ev |-> "attach", i |-> 1], [ev |-> "attach", i |-> 2]>>
        /\ calls[c].key \notin DOMAIN injectionLocks
        /\ NodesBy(c) # {}

\* C23: every injectComponent call that has failed, at whatever step, has
\* logged an error for its component.
C23_FailureLogged ==
    \A c \in Calls :
        (calls[c].kind = "inject" /\ calls[c].pc = "rejected")
        => calls[c].logged >= 1

\* C24: for the fixed component name, every derivation of a target's key
\* gave the same key, and no key was derived for two different targets.
C24_KeyDerivation ==
    /\ \A e \in KeyElements : Cardinality(keyLog[e]) <= 1
    /\ \A e, f \in KeyElements : e # f => keyLog[e] \cap keyLog[f] = {}

\* C25: when the retrieval of an injection (replace or append) fails, the
\* call has changed neither the target's content nor the handler records of
\* its instance key, has detached no handler and run no transition; it
\* acquired the lock and released it.
\* First conjunct, what is left of such a call: rejected with the retrieval
\* error, logged once, the lock released once; it has no fragment, ran no
\* script, dispatched nothing, and nothing it made is in the document.
\* Second conjunct: the steps of an injection up to and including the failure
\* of its retrieval leave every surface, the handler registry and the
\* attached handlers as they are; the failing step changes the lock registry
\* only.
C25_RetrievalFailureFrame ==
    /\ [](
          \A c \in Calls :
              (calls[c].kind = "inject" /\ calls[c].result = "RetrievalError") =>
                  /\ calls[c].pc = "rejected"
                  /\ calls[c].logged = 1
                  /\ calls[c].releases = 1
                  /\ calls[c].html = 0
                  /\ calls[c].slog = << >> /\ calls[c].evt = << >>
                  /\ NodesBy(c) = {}
                  /\ \A h \in listeners : h.by # c)
    /\ [][
          \A c \in Calls :
              (calls[c].kind = "inject" /\ calls'[c] # calls[c]) =>
                  /\ (calls'[c].pc \in {"lockWait", "acquired", "awaitLoad"}
                        \/ calls'[c].result = "RetrievalError")
                     => (dom' = dom /\ eventHandlers' = eventHandlers
                           /\ listeners' = listeners)
                  /\ (calls'[c].result = "RetrievalError")
                     => (/\ UNCHANGED <<components, loadingStates, fetches, waitq>>
                         /\ calls[c].key \notin DOMAIN injectionLocks'
                         /\ \A d \in Calls \ {c} : calls'[d] = calls[d])
         ]_vars

\* a replacing injection failed on its retrieval while an earlier injection's
\* content is in the target and its handlers are recorded under the same key
\* and still attached
C25_Witness ==
    \E c \in Calls :
        /\ calls[c].kind = "inject" /\ calls[c].result = "RetrievalError"
        /\ calls[c].key \in DOMAIN eventHandlers
        /\ eventHandlers[calls[c].key] # << >>
        /\ Range(eventHandlers[calls[c].key]) \subseteq listeners
        /\ dom[calls[c].el].light # << >>

\* call c's _releaseLock runs in this step
Releases(c) == calls[c].kind = "inject" /\ calls'[c].releases = calls[c].releases + 1

\* C26: with destroy() among the calls, two injections for one instance key
\* are never inside their critical sections together, and a step in which an
\* injection releases leaves the lock entries registered by other injections
\* in place.
C26_ExclusionAcrossTeardown ==
    /\ [](\A a, b \in Calls :
            (a # b /\ InCritical(a) /\ InCritical(b)) => calls[a].key # calls[b].key)
    /\ [][\A c \in Calls :
            Releases(c) =>
               \A K \in DOMAIN injectionLocks :
                  injectionLocks[K] # LockPromise(c) =>
                     (K \in DOMAIN injectionLocks' /\ injectionLocks'[K] = injectionLocks[K])
         ]_vars

\* the value at the end of a path every segment of which is present
RECURSIVE ValueAt(_, _)
ValueAt(value, path) ==
    IF path = << >> THEN value ELSE ValueAt(value.f[Head(path)], Tail(path))

\* what one piece of the template contributes to the output when each piece
\* is looked at once: a resolved placeholder gives its value's escaped string
\* form, whatever that string contains; anything else gives its own characters
Expand(part, data) ==
    IF part.ph /\ HasPath(data, part.path)
    THEN _escapeHtml(StringOf(ValueAt(data, part.path)))
    ELSE part.chars

RECURSIVE ExpandAll(_, _)
ExpandAll(parts, data) ==
    IF parts = << >> THEN << >>
    ELSE Expand(Head(parts), data) \o ExpandAll(Tail(parts), data)

\* a literal piece without a brace of its own
Braceless(part) ==
    part.ph \/ \A i \in 1..Len(part.chars) : part.chars[i] \notin {"{", "}"}

\* C27: the text is scanned once: for a template made of placeholders and
\* brace-free literals the output is, piece by piece, the literal or the
\* escaped value, and placeholder syntax inside a value is left as it is; with
\* data {a: "{{b}}", b: "s"} the text {{a}} gives {{b}}, not s.
C27_SinglePass ==
    (tplDone /\ \A k \in 1..Len(tplParts) : Braceless(tplParts[k]))
    => tplOut = ExpandAll(tplParts, tplData)

\* x{{a}} over {a: "{{b}}", b: "s"} gave x{{b}}
C27_Witness ==
    /\ tplDone
    /\ tplText = <<"x", "{", "{", "a", "}", "}">>
    /\ tplData = Obj((<<"a">> :> Str(<<"{", "{", "b", "}", "}">>)) @@ (<<"b">> :> Str(<<"s">>)))
    /\ tplOut = <<"x", "{", "{", "b", "}", "}">>

====
